---- MODULE Spec2Model ----
(***************************************************************************)
(* Model of src/steps/vagrant.rs: the status parser (Vagrant::get_boxes),  *)
(* the power guard (TemporaryPowerOn::create and its Drop) and the         *)
(* per-directory, per-box loop of topgrade_vagrant_boxes.                  *)
(*                                                                         *)
(* Strings are sequences of one-character strings, so that splitting,      *)
(* tokenizing, keyword matching and path handling are computed the way the *)
(* code computes them.  Option<T> is a sequence of length 0 (None) or 1    *)
(* (Some).                                                                 *)
(***************************************************************************)
EXTENDS Integers, Sequences, FiniteSets, TLC

VARIABLES
    directories,  \* ctx.config().vagrant_directories(): Option<Vec<String>>
    power_on,     \* ctx.config().vagrant_power_on(): Option<bool>
    yes,          \* ctx.config().yes(): bool
    found,        \* whether utils::require("vagrant") finds the binary
    pc,           \* position in topgrade_vagrant_boxes
    dirIdx,       \* index of `directory` in the outer for loop
    boxes,        \* the Vec get_boxes returned for the current directory
    boxIdx,       \* index of (vagrant_box, status) in the inner for loop
    poweron,      \* the local _poweron: Option<TemporaryPowerOn>
    unwinding,    \* why the current box scope is being left
    result,       \* outcome of topgrade_vagrant_boxes
    log,          \* every subprocess invocation so far, in order
    power,        \* power state of each box seen, as the external tool holds it
    listed,       \* state the latest status listing reported for each box
    listings,     \* history: the Vec get_boxes returned for each directory so far
    stdout,       \* parser specification: the status text under parse
    parsed        \* parser specification: what get_boxes made of stdout

vars == <<directories, power_on, yes, found, pc, dirIdx, boxes, boxIdx, poweron,
          unwinding, result, log, power, listed, listings, stdout, parsed>>

None == <<>>

Some(x) == <<x>>

-----------------------------------------------------------------------------
(* Characters and string literals of the source *)

NL == "\n"

CR == "\r"

SP == " "

TAB == "\t"

\* char::is_whitespace, restricted to the characters the model uses
is_whitespace(c) == c \in {SP, TAB, CR, NL}

str_poweroff == <<"p", "o", "w", "e", "r", "o", "f", "f">>

str_running == <<"r", "u", "n", "n", "i", "n", "g">>

str_saved == <<"s", "a", "v", "e", "d">>

str_aborted == <<"a", "b", "o", "r", "t", "e", "d">>

str_default == <<"d", "e", "f", "a", "u", "l", "t">>

str_up == <<"u", "p">>

str_resume == <<"r", "e", "s", "u", "m", "e">>

str_halt == <<"h", "a", "l", "t">>

str_suspend == <<"s", "u", "s", "p", "e", "n", "d">>

str_status == <<"s", "t", "a", "t", "u", "s">>

str_ssh == <<"s", "s", "h">>

str_dash_c == <<"-", "c">>

str_env_prefix == <<"e", "n", "v", " ", "T", "O", "P", "G", "R", "A", "D", "E", "_",
                    "P", "R", "E", "F", "I", "X", "=">>

str_topgrade == <<" ", "t", "o", "p", "g", "r", "a", "d", "e">>

str_dash_y == <<" ", "-", "y">>

-----------------------------------------------------------------------------
(* BoxStatus *)

BoxStatus == {"PowerOff", "Running", "Saved", "Aborted"}

\* char::to_ascii_lowercase
to_ascii_lowercase(c) ==
    LET upper == <<"A", "B", "C", "D", "E", "F", "G", "H", "I", "J", "K", "L", "M",
                   "N", "O", "P", "Q", "R", "S", "T", "U", "V", "W", "X", "Y", "Z">>
        lower == <<"a", "b", "c", "d", "e", "f", "g", "h", "i", "j", "k", "l", "m",
                   "n", "o", "p", "q", "r", "s", "t", "u", "v", "w", "x", "y", "z">>
    IN  IF \E i \in 1..26 : upper[i] = c
        THEN lower[CHOOSE i \in 1..26 : upper[i] = c]
        ELSE c

\* str::to_ascii_lowercase
lowercase(s) == [i \in 1..Len(s) |-> to_ascii_lowercase(s[i])]

\* faulty variant of from_str: the keywords are matched whatever their case
\* (strum's ascii_case_insensitive)
from_str_ignore_case(s) ==
    IF lowercase(s) = str_poweroff THEN Some("PowerOff")
    ELSE IF lowercase(s) = str_running THEN Some("Running")
    ELSE IF lowercase(s) = str_saved THEN Some("Saved")
    ELSE IF lowercase(s) = str_aborted THEN Some("Aborted")
    ELSE None

\* strum EnumString with serialize_all = "lowercase": from_str accepts exactly
\* the lowercased variant names; Option models the Result.
from_str(s) ==
    IF s = str_poweroff THEN Some("PowerOff")
    ELSE IF s = str_running THEN Some("Running")
    ELSE IF s = str_saved THEN Some("Saved")
    ELSE IF s = str_aborted THEN Some("Aborted")
    ELSE None

\* faulty variant of powered_on: no state counts as powered on
powered_on_never(status) == FALSE

powered_on(status) == status = "Running"

-----------------------------------------------------------------------------
(* Vagrant::get_boxes: parsing of the status text *)

RECURSIVE split(_, _)
\* str::split(sep): the pieces between separators; an empty text is one empty piece
split(s, sep) ==
    IF \A i \in 1..Len(s) : s[i] # sep
    THEN <<s>>
    ELSE LET i == CHOOSE k \in 1..Len(s) :
                      s[k] = sep /\ \A j \in 1..(k - 1) : s[j] # sep
         IN  <<SubSeq(s, 1, i - 1)>> \o split(SubSeq(s, i + 1, Len(s)), sep)

\* Iterator::skip(n)
skip(xs, n) == SubSeq(xs, n + 1, Len(xs))

\* faulty variant of table_line: only an empty line ends the table
table_line_only_empty(line) == line # <<>>

\* the take_while predicate of get_boxes
table_line(line) == ~(line = <<>> \/ Head(line) = CR)

RECURSIVE take_while(_)
\* Iterator::take_while(table_line)
take_while(xs) ==
    IF xs = <<>> \/ ~table_line(Head(xs))
    THEN <<>>
    ELSE <<Head(xs)>> \o take_while(Tail(xs))

RECURSIVE split_whitespace(_)
\* str::split_whitespace: the maximal runs of non-whitespace characters
split_whitespace(s) ==
    IF s = <<>> THEN <<>>
    ELSE IF is_whitespace(Head(s)) THEN split_whitespace(Tail(s))
    ELSE LET stops == {k \in 1..Len(s) : is_whitespace(s[k])}
             n == IF stops = {} THEN Len(s)
                  ELSE (CHOOSE k \in stops : \A j \in stops : k <= j) - 1
         IN  <<SubSeq(s, 1, n)>> \o split_whitespace(SubSeq(s, n + 1, Len(s)))

\* the closure mapped over the table lines; None models the panic of an unwrap()
parse_line(line, directory) ==
    LET elements == split_whitespace(line)
    IN  IF Len(elements) < 1 THEN None
        ELSE IF Len(elements) < 2 THEN None
        ELSE IF from_str(elements[2]) = None THEN None
        ELSE Some([name |-> elements[1], path |-> directory,
                   status |-> from_str(elements[2])[1]])

\* the iterator chain of get_boxes, after the status command succeeded
get_boxes(directory, output) ==
    LET lines == take_while(skip(split(output, NL), 2))
        recs == [i \in 1..Len(lines) |-> parse_line(lines[i], directory)]
    IN  IF \E i \in 1..Len(lines) : recs[i] = None
        THEN [kind |-> "Panic", boxes |-> <<>>]
        ELSE [kind |-> "Ok", boxes |-> [i \in 1..Len(lines) |-> recs[i][1]]]

-----------------------------------------------------------------------------
(* TemporaryPowerOn: the bring-up and restore subcommands *)

\* the match of TemporaryPowerOn::create; None models unreachable!()
create_subcommand(status) ==
    IF status \in {"PowerOff", "Aborted"} THEN Some(str_up)
    ELSE IF status = "Saved" THEN Some(str_resume)
    ELSE None

\* faulty variant of drop_subcommand: every guard halts its box
drop_subcommand_always_halt(status) ==
    IF status \in {"PowerOff", "Aborted", "Saved"} THEN Some(str_halt) ELSE None

\* faulty variant of drop_subcommand: the two restore subcommands exchanged
drop_subcommand_exchanged(status) ==
    IF status \in {"PowerOff", "Aborted"} THEN Some(str_suspend)
    ELSE IF status = "Saved" THEN Some(str_halt)
    ELSE None

\* the match of Drop for TemporaryPowerOn; None models unreachable!()
drop_subcommand(status) ==
    IF status \in {"PowerOff", "Aborted"} THEN Some(str_halt)
    ELSE IF status = "Saved" THEN Some(str_suspend)
    ELSE None

-----------------------------------------------------------------------------
(* Command construction of topgrade_vagrant_boxes *)

\* Path::file_name of PathBuf::from(directory): the last component if it is a
\* normal one; "." components and repeated separators are dropped, ".." is not
file_name(directory) ==
    LET parts == split(directory, "/")
        keep == {i \in 1..Len(parts) : parts[i] # <<>> /\ parts[i] # <<".">>}
    IN  IF keep = {} THEN None
        ELSE LET last == parts[CHOOSE i \in keep : \A j \in keep : j <= i]
             IN  IF last = <<".", ".">> THEN None ELSE Some(last)

\* faulty variant of prefix: the box name whatever it is
prefix_always_name(vagrant_box, directory) == Some(vagrant_box.name)

\* the prefix of the remote command; None models the panic of file_name().unwrap()
prefix(vagrant_box, directory) ==
    IF vagrant_box.name = str_default
    THEN file_name(directory)
    ELSE Some(vagrant_box.name)

\* format!("env TOPGRADE_PREFIX={} topgrade", prefix), " -y" pushed under yes()
command(pfx, assume_yes) ==
    str_env_prefix \o pfx \o str_topgrade \o (IF assume_yes THEN str_dash_y ELSE <<>>)

\* faulty variant of power_on_enabled: unwrap_or(false)
power_on_default_off(opt) == IF opt = None THEN FALSE ELSE opt[1]

\* vagrant_power_on().unwrap_or(true)
power_on_enabled(opt) == IF opt = None THEN TRUE ELSE opt[1]

-----------------------------------------------------------------------------
(* Inputs: configurations and the status texts the external tool prints *)

\* most box lines a status listing holds
MaxBoxes == 2

\* most trailing lines after the terminator, in the parser specification
MaxTrailing == 2

dir_vm_a == <<"/", "v", "m", "/", "a">>

dir_root == <<"/">>

\* configured directory lists: none, one, two, a repeated one, one that is the root
DirLists ==
    {<<>>, <<dir_vm_a>>, <<dir_root>>, <<dir_vm_a, dir_vm_a>>, <<dir_vm_a, dir_root>>,
     <<dir_root, dir_vm_a>>}

str_web == <<"w", "e", "b">>

str_db == <<"d", "b">>

str_lb == <<"l", "b">>

str_provider == <<"(", "v", "b", ")">>

str_Running == <<"R", "u", "n", "n", "i", "n", "g">>

str_POWEROFF == <<"P", "O", "W", "E", "R", "O", "F", "F">>

str_not == <<"n", "o", "t">>

str_created == <<"c", "r", "e", "a", "t", "e", "d">>

header1 == <<"C", "u", "r", "r", "e", "n", "t", ":">>

\* the lowercase keyword the tool prints for a state
keyword(status) ==
    CASE status = "PowerOff" -> str_poweroff
      [] status = "Running" -> str_running
      [] status = "Saved" -> str_saved
      [] status = "Aborted" -> str_aborted

RECURSIVE join(_, _)
\* the pieces with sep between each two
join(pieces, sep) ==
    IF pieces = <<>> THEN <<>>
    ELSE IF Len(pieces) = 1 THEN pieces[1]
    ELSE pieces[1] \o sep \o join(Tail(pieces), sep)

\* a line of tokens as the tool prints it: column padding between the tokens,
\* optionally indented, optionally ending in a carriage return (CR LF line ends)
render_line(l) ==
    (IF l.lead THEN <<SP>> ELSE <<>>) \o join(l.tokens, <<SP, SP>>)
        \o (IF l.cr THEN <<CR>> ELSE <<>>)

\* a status text by its parts: two header lines, the table, a terminator line
\* (if any) and the trailing lines
status_text(t) ==
    join(<<t.h1, t.h2>> \o [i \in 1..Len(t.table) |-> render_line(t.table[i])]
             \o t.terminator \o t.trailing, <<NL>>)

\* the box line of name in state status
box_line(name, status) ==
    IF name = str_default
    THEN [tokens |-> <<name, keyword(status)>>, lead |-> TRUE, cr |-> TRUE]
    ELSE [tokens |-> <<name, keyword(status), str_provider>>, lead |-> FALSE, cr |-> FALSE]

\* the names a listing of n boxes holds, in listing order (unique within a listing)
listing_names(n) ==
    IF n = 1 THEN <<str_default>>
    ELSE SubSeq(<<str_web, str_default, str_db, str_lb>>, 1, n)

\* the states the tool may report for a box in the run specification
name_states(name) ==
    IF name = str_default THEN {"PowerOff", "Running"}
    ELSE IF name = str_web THEN {"Saved", "Aborted"}
    ELSE {"Running"}

\* the well-formed box tables of n lines, in the run specification
tables(n) ==
    {[i \in 1..n |-> box_line(listing_names(n)[i], f[i])] :
        f \in {g \in [1..n -> BoxStatus] :
                  \A i \in 1..n : g[i] \in name_states(listing_names(n)[i])}}

\* box lines the parser cannot take: no state token, a capitalized keyword, an
\* upper-case keyword, the tool's "not created", no token at all
malformed_lines ==
    {[tokens |-> <<str_web>>, lead |-> FALSE, cr |-> FALSE],
     [tokens |-> <<str_web, str_Running, str_provider>>, lead |-> FALSE, cr |-> FALSE],
     [tokens |-> <<str_web, str_POWEROFF>>, lead |-> FALSE, cr |-> FALSE],
     [tokens |-> <<str_default, str_not, str_created>>, lead |-> FALSE, cr |-> FALSE],
     [tokens |-> <<>>, lead |-> TRUE, cr |-> FALSE]}

\* the texts the status command prints in the run specification
StatusOutputs ==
    {status_text([h1 |-> header1, h2 |-> <<>>, table |-> t, terminator |-> <<term>>,
                  trailing |-> <<str_provider>>]) :
        t \in UNION {tables(n) : n \in 0..MaxBoxes}, term \in {<<>>, <<CR>>}}
    \cup {status_text([h1 |-> header1, h2 |-> <<>>, table |-> t \o <<bad>>,
                       terminator |-> <<>>, trailing |-> <<>>]) :
            t \in tables(0) \cup tables(1), bad \in malformed_lines}

-----------------------------------------------------------------------------
(* State of a run of topgrade_vagrant_boxes *)

NoResult == [kind |-> "none", at |-> "none"]

NotParsed == [kind |-> "none", boxes |-> <<>>]

\* a box as the external tool knows it: working directory and name
box_key(b) == <<b.path, b.name>>

\* one subprocess invocation: arguments, working directory, exit status, and
\* the loop indices of the directory and box it was issued for
invocation(args, cwd, ok, di, bi) ==
    [args |-> args, cwd |-> cwd, ok |-> ok, di |-> di, bi |-> bi]

\* f with key k set to v
assign(f, k, v) == [x \in DOMAIN f \cup {k} |-> IF x = k THEN v ELSE f[x]]

\* f with the states a listing reports
assign_listing(f, bs) ==
    [x \in DOMAIN f \cup {box_key(bs[i]) : i \in 1..Len(bs)} |->
        IF \E i \in 1..Len(bs) : box_key(bs[i]) = x
        THEN bs[CHOOSE i \in 1..Len(bs) :
                    box_key(bs[i]) = x
                    /\ \A j \in 1..Len(bs) : box_key(bs[j]) = x => j <= i].status
        ELSE f[x]]

\* the nominal effect of a successful subcommand on a box's power state
effect(subcommand) ==
    CASE subcommand = str_up -> "Running"
      [] subcommand = str_resume -> "Running"
      [] subcommand = str_halt -> "PowerOff"
      [] subcommand = str_suspend -> "Saved"

directory == directories[1][dirIdx]

vagrant_box == boxes[boxIdx]

Init ==
    /\ directories \in {None} \cup {Some(d) : d \in DirLists}
    /\ power_on \in {None, Some(TRUE), Some(FALSE)}
    /\ yes \in BOOLEAN
    /\ found \in BOOLEAN
    /\ pc = "start"
    /\ dirIdx = 0
    /\ boxes = <<>>
    /\ boxIdx = 0
    /\ poweron = None
    /\ unwinding = NoResult
    /\ result = NoResult
    /\ log = <<>>
    /\ power = <<>>
    /\ listed = <<>>
    /\ listings = <<>>
    /\ stdout = <<>>
    /\ parsed = NotParsed

config == <<directories, power_on, yes, found>>

others == <<listings, stdout, parsed>>

\* faulty variant of Start: the binary is not looked for
Start_without_require ==
    /\ pc = "start"
    /\ IF directories = None
       THEN pc' = "done" /\ result' = [kind |-> "Err", at |-> "directories"]
                /\ dirIdx' = dirIdx
       ELSE pc' = "directory" /\ result' = result /\ dirIdx' = 1
    /\ UNCHANGED <<config, boxes, boxIdx, poweron, unwinding, log, power, listed, others>>

\* lines 138-144: require_option(vagrant_directories())?, require("vagrant")?
Start ==
    /\ pc = "start"
    /\ IF directories = None
       THEN pc' = "done" /\ result' = [kind |-> "Err", at |-> "directories"]
                /\ dirIdx' = dirIdx
       ELSE IF ~found
       THEN pc' = "done" /\ result' = [kind |-> "Err", at |-> "vagrant"]
                /\ dirIdx' = dirIdx
       ELSE pc' = "directory" /\ result' = result /\ dirIdx' = 1
    /\ UNCHANGED <<config, boxes, boxIdx, poweron, unwinding, log, power, listed, others>>

\* faulty variant of GetBoxesErr: the failed listing is passed over and the
\* outer loop takes the next directory
GetBoxesErr_continues ==
    /\ pc = "directory"
    /\ dirIdx <= Len(directories[1])
    /\ log' = Append(log, invocation(<<str_status>>, directory, FALSE, dirIdx, 0))
    /\ listings' = Append(listings, <<>>)
    /\ dirIdx' = dirIdx + 1
    /\ UNCHANGED <<config, pc, boxes, boxIdx, poweron, unwinding, result, power, listed,
                   stdout, parsed>>

\* lines 47-51, 147: the status command fails and `?` returns its error
GetBoxesErr ==
    /\ pc = "directory"
    /\ dirIdx <= Len(directories[1])
    /\ log' = Append(log, invocation(<<str_status>>, directory, FALSE, dirIdx, 0))
    /\ pc' = "done"
    /\ result' = [kind |-> "Err", at |-> "status"]
    /\ UNCHANGED <<config, dirIdx, boxes, boxIdx, poweron, unwinding, power, listed, others>>

\* lines 47-71: the status command succeeds and an unwrap() in the closure panics
GetBoxesPanic ==
    /\ pc = "directory"
    /\ dirIdx <= Len(directories[1])
    /\ \E output \in StatusOutputs :
          get_boxes(directory, output).kind = "Panic"
    /\ log' = Append(log, invocation(<<str_status>>, directory, TRUE, dirIdx, 0))
    /\ pc' = "done"
    /\ result' = [kind |-> "Panic", at |-> "parse"]
    /\ UNCHANGED <<config, dirIdx, boxes, boxIdx, poweron, unwinding, power, listed, others>>

\* lines 47-71, 147-149: the status command succeeds and its text parses
GetBoxesOk ==
    /\ pc = "directory"
    /\ dirIdx <= Len(directories[1])
    /\ \E output \in StatusOutputs :
          LET r == get_boxes(directory, output)
          IN  /\ r.kind = "Ok"
              /\ boxes' = r.boxes
              /\ power' = assign_listing(power, r.boxes)
              /\ listed' = assign_listing(listed, r.boxes)
              /\ listings' = Append(listings, r.boxes)
    /\ log' = Append(log, invocation(<<str_status>>, directory, TRUE, dirIdx, 0))
    /\ boxIdx' = 1
    /\ pc' = "box"
    /\ UNCHANGED <<config, dirIdx, poweron, unwinding, result, stdout, parsed>>

\* line 149: the inner loop is exhausted, the outer loop takes the next directory
NextDirectory ==
    /\ pc = "box"
    /\ boxIdx > Len(boxes)
    /\ dirIdx' = dirIdx + 1
    /\ pc' = "directory"
    /\ UNCHANGED <<config, boxes, boxIdx, poweron, unwinding, result, log, power, listed,
                   others>>

\* lines 146, 180: the outer loop is exhausted, Ok(())
Finish ==
    /\ pc = "directory"
    /\ dirIdx > Len(directories[1])
    /\ pc' = "done"
    /\ result' = [kind |-> "Ok", at |-> "end"]
    /\ UNCHANGED <<config, dirIdx, boxes, boxIdx, poweron, unwinding, log, power, listed,
                   others>>

\* lines 150-151: a box that is powered on needs no guard
AlreadyOn ==
    /\ pc = "box"
    /\ boxIdx <= Len(boxes)
    /\ powered_on(vagrant_box.status)
    /\ pc' = "run"
    /\ UNCHANGED <<config, dirIdx, boxes, boxIdx, poweron, unwinding, result, log, power,
                   listed, others>>

\* faulty variant of Skip: the `continue` is missing
Skip_runs_anyway ==
    /\ pc = "box"
    /\ boxIdx <= Len(boxes)
    /\ ~powered_on(vagrant_box.status)
    /\ ~power_on_enabled(power_on)
    /\ pc' = "run"
    /\ UNCHANGED <<config, dirIdx, boxes, boxIdx, poweron, unwinding, result, log, power,
                   listed, others>>

\* lines 151-154: the policy is disabled, continue
Skip ==
    /\ pc = "box"
    /\ boxIdx <= Len(boxes)
    /\ ~powered_on(vagrant_box.status)
    /\ ~power_on_enabled(power_on)
    /\ boxIdx' = boxIdx + 1
    /\ UNCHANGED <<config, pc, dirIdx, boxes, poweron, unwinding, result, log, power,
                   listed, others>>

\* faulty variant of Create: the guard is built whatever the command's exit status
Create_guard_regardless(ok) ==
    /\ pc = "box"
    /\ boxIdx <= Len(boxes)
    /\ ~powered_on(vagrant_box.status)
    /\ power_on_enabled(power_on)
    /\ create_subcommand(vagrant_box.status) # None
    /\ log' = Append(log, invocation(
                  <<create_subcommand(vagrant_box.status)[1], vagrant_box.name>>,
                  vagrant_box.path, ok, dirIdx, boxIdx))
    /\ poweron' = Some([vagrant_box |-> vagrant_box, status |-> vagrant_box.status])
    /\ power' = IF ok
                THEN assign(power, box_key(vagrant_box),
                            effect(create_subcommand(vagrant_box.status)[1]))
                ELSE power
    /\ pc' = "run"
    /\ UNCHANGED <<config, dirIdx, boxes, boxIdx, unwinding, result, listed, others>>

\* faulty variant of Create: a failed command is passed over and the inner loop
\* takes the next box
Create_continues(ok) ==
    /\ pc = "box"
    /\ boxIdx <= Len(boxes)
    /\ ~powered_on(vagrant_box.status)
    /\ power_on_enabled(power_on)
    /\ create_subcommand(vagrant_box.status) # None
    /\ log' = Append(log, invocation(
                  <<create_subcommand(vagrant_box.status)[1], vagrant_box.name>>,
                  vagrant_box.path, ok, dirIdx, boxIdx))
    /\ IF ok
       THEN /\ poweron' = Some([vagrant_box |-> vagrant_box,
                                status |-> vagrant_box.status])
            /\ power' = assign(power, box_key(vagrant_box),
                               effect(create_subcommand(vagrant_box.status)[1]))
            /\ pc' = "run"
            /\ boxIdx' = boxIdx
       ELSE /\ pc' = "box"
            /\ boxIdx' = boxIdx + 1
            /\ UNCHANGED <<poweron, power>>
    /\ UNCHANGED <<config, dirIdx, boxes, unwinding, result, listed, others>>

\* lines 156, 92-116: TemporaryPowerOn::create, whose command exits with ok
Create(ok) ==
    /\ pc = "box"
    /\ boxIdx <= Len(boxes)
    /\ ~powered_on(vagrant_box.status)
    /\ power_on_enabled(power_on)
    /\ LET subcommand == create_subcommand(vagrant_box.status)
       IN  IF subcommand = None
           THEN /\ pc' = "done"
                /\ result' = [kind |-> "Panic", at |-> "create_unreachable"]
                /\ UNCHANGED <<poweron, log, power>>
           ELSE /\ log' = Append(log, invocation(<<subcommand[1], vagrant_box.name>>,
                                                 vagrant_box.path, ok, dirIdx, boxIdx))
                /\ IF ok
                   THEN /\ poweron' = Some([vagrant_box |-> vagrant_box,
                                            status |-> vagrant_box.status])
                        /\ power' = assign(power, box_key(vagrant_box),
                                           effect(subcommand[1]))
                        /\ pc' = "run"
                        /\ result' = result
                   ELSE /\ pc' = "done"
                        /\ result' = [kind |-> "Err", at |-> "create"]
                        /\ UNCHANGED <<poweron, power>>
    /\ UNCHANGED <<config, dirIdx, boxes, boxIdx, unwinding, listed, others>>

CreateOk == Create(TRUE)

CreateErr == Create(FALSE)

\* faulty variant of LeaveScope: the inner loop does not advance
LeaveScope_same_box(r) ==
    IF r.kind = "none"
    THEN pc' = "box" /\ boxIdx' = boxIdx /\ result' = result
    ELSE pc' = "done" /\ boxIdx' = boxIdx /\ result' = r

\* faulty variant of LeaveScope: an error of the loop body does not end the loop
LeaveScope_continues(r) ==
    IF r.kind \in {"none", "Err"}
    THEN pc' = "box" /\ boxIdx' = boxIdx + 1 /\ result' = result
    ELSE pc' = "done" /\ boxIdx' = boxIdx /\ result' = r

\* the box scope is left with outcome r: the next iteration, or out of the function
LeaveScope(r) ==
    IF r.kind = "none"
    THEN pc' = "box" /\ boxIdx' = boxIdx + 1 /\ result' = result
    ELSE pc' = "done" /\ boxIdx' = boxIdx /\ result' = r

\* faulty variant of EndOfBody: the guard outlives the loop body
EndOfBody_leaks(r) == LeaveScope(r) /\ unwinding' = unwinding

\* the end of the loop body is reached with outcome r: _poweron is dropped if it
\* holds a guard
EndOfBody(r) ==
    IF poweron = None
    THEN LeaveScope(r) /\ unwinding' = unwinding
    ELSE pc' = "drop" /\ unwinding' = r /\ UNCHANGED <<boxIdx, result>>

\* lines 161-163: file_name() is None and unwrap() panics; the stack unwinds
PrefixPanic ==
    /\ pc = "run"
    /\ prefix(vagrant_box, directory) = None
    /\ EndOfBody([kind |-> "Panic", at |-> "prefix"])
    /\ UNCHANGED <<config, dirIdx, boxes, poweron, log, power, listed, others>>

\* faulty variant of Ssh: the exit status of the remote command is not looked at
Ssh_ignores_status(ok) ==
    /\ pc = "run"
    /\ prefix(vagrant_box, directory) # None
    /\ log' = Append(log, invocation(
                  <<str_ssh, str_dash_c, command(prefix(vagrant_box, directory)[1], yes)>>,
                  directory, ok, dirIdx, boxIdx))
    /\ EndOfBody(NoResult)
    /\ UNCHANGED <<config, dirIdx, boxes, poweron, power, listed, others>>

\* lines 160-177: the remote command is built and run, and exits with ok
Ssh(ok) ==
    /\ pc = "run"
    /\ prefix(vagrant_box, directory) # None
    /\ log' = Append(log, invocation(
                  <<str_ssh, str_dash_c, command(prefix(vagrant_box, directory)[1], yes)>>,
                  directory, ok, dirIdx, boxIdx))
    /\ EndOfBody(IF ok THEN NoResult ELSE [kind |-> "Err", at |-> "ssh"])
    /\ UNCHANGED <<config, dirIdx, boxes, poweron, power, listed, others>>

SshOk == Ssh(TRUE)

SshErr == Ssh(FALSE)

\* faulty variant of Drop: a failed restore command becomes the error of the run
Drop_propagates(ok) ==
    /\ pc = "drop"
    /\ drop_subcommand(poweron[1].status) # None
    /\ log' = Append(log, invocation(
                  <<drop_subcommand(poweron[1].status)[1], poweron[1].vagrant_box.name>>,
                  poweron[1].vagrant_box.path, ok, dirIdx, boxIdx))
    /\ power' = IF ok
                THEN assign(power, box_key(poweron[1].vagrant_box),
                            effect(drop_subcommand(poweron[1].status)[1]))
                ELSE power
    /\ IF ok THEN LeaveScope(unwinding)
       ELSE LeaveScope([kind |-> "Err", at |-> "restore"])
    /\ poweron' = None
    /\ unwinding' = NoResult
    /\ UNCHANGED <<config, dirIdx, boxes, listed, others>>

\* lines 119-136: Drop for TemporaryPowerOn, whose command exits with ok; .ok()
\* discards the exit status
Drop(ok) ==
    /\ pc = "drop"
    /\ LET guard == poweron[1]
           subcommand == drop_subcommand(guard.status)
       IN  IF subcommand = None
           THEN /\ pc' = "done"
                /\ result' = [kind |-> "Panic", at |-> "drop_unreachable"]
                /\ UNCHANGED <<boxIdx, log, power>>
           ELSE /\ log' = Append(log, invocation(<<subcommand[1], guard.vagrant_box.name>>,
                                                 guard.vagrant_box.path, ok, dirIdx, boxIdx))
                /\ power' = IF ok
                            THEN assign(power, box_key(guard.vagrant_box),
                                        effect(subcommand[1]))
                            ELSE power
                /\ LeaveScope(unwinding)
    /\ poweron' = None
    /\ unwinding' = NoResult
    /\ UNCHANGED <<config, dirIdx, boxes, listed, others>>

DropOk == Drop(TRUE)

DropErr == Drop(FALSE)

Next ==
    \/ Start
    \/ GetBoxesErr
    \/ GetBoxesPanic
    \/ GetBoxesOk
    \/ NextDirectory
    \/ Finish
    \/ AlreadyOn
    \/ Skip
    \/ CreateOk
    \/ CreateErr
    \/ PrefixPanic
    \/ SshOk
    \/ SshErr
    \/ DropOk
    \/ DropErr

Spec == Init /\ [][Next]_vars

-----------------------------------------------------------------------------
(* Parser specification: get_boxes applied to status texts given by their parts *)

\* a header line that reads like a box line
header_like_box == render_line(box_line(str_web, "Running"))

\* the box lines of the parser specification, well-formed and malformed
parse_lines ==
    {box_line(str_web, st) : st \in BoxStatus}
    \cup {box_line(str_default, st) : st \in name_states(str_default)}
    \cup {l \in malformed_lines : l.tokens # <<>> /\ l.tokens[1] = str_web}

\* lines that may follow the table
trailing_lines == {<<>>, render_line(box_line(str_db, "Saved"))}

RECURSIVE seqs_upto(_, _)
\* the sequences over S of length at most n
seqs_upto(S, n) ==
    IF n = 0 THEN {<<>>}
    ELSE LET shorter == seqs_upto(S, n - 1)
         IN  shorter \cup {Append(q, x) : q \in {r \in shorter : Len(r) = n - 1}, x \in S}

\* the two header lines: the tool's, and a pair that reads like a box line and
\* a terminator
header_pairs == {<<header1, <<>>>>, <<header_like_box, <<CR>>>>}

\* status texts by their parts; a text without terminator ends with its table
ParseInputs ==
    {[h1 |-> h[1], h2 |-> h[2], table |-> t, terminator |-> Some(term), trailing |-> tr] :
        h \in header_pairs,
        t \in seqs_upto(parse_lines, MaxBoxes),
        term \in {<<>>, <<CR>> \o str_provider},
        tr \in seqs_upto(trailing_lines, MaxTrailing)}
    \cup {[h1 |-> h[1], h2 |-> h[2], table |-> t, terminator |-> None, trailing |-> <<>>] :
            h \in header_pairs, t \in seqs_upto(parse_lines, MaxBoxes)}

InitParse ==
    /\ directories = Some(<<dir_vm_a>>)
    /\ power_on = None
    /\ yes = FALSE
    /\ found = TRUE
    /\ pc = "parse"
    /\ dirIdx = 1
    /\ boxes = <<>>
    /\ boxIdx = 0
    /\ poweron = None
    /\ unwinding = NoResult
    /\ result = NoResult
    /\ log = <<>>
    /\ power = <<>>
    /\ listed = <<>>
    /\ listings = <<>>
    /\ stdout \in ParseInputs
    /\ parsed = NotParsed

\* lines 54-71: the text of stdout is parsed
Parse ==
    /\ pc = "parse"
    /\ parsed' = get_boxes(directory, status_text(stdout))
    /\ pc' = "parsed"
    /\ UNCHANGED <<config, dirIdx, boxes, boxIdx, poweron, unwinding, result, log, power,
                   listed, listings, stdout>>

NextParse == Parse

SpecParse == InitParse /\ [][NextParse]_vars

-----------------------------------------------------------------------------
(* Vocabulary of the properties *)

bring_ups == {str_up, str_resume}

restores == {str_halt, str_suspend}

Entries == 1..Len(log)

IsBringUp(e) == e.args[1] \in bring_ups

IsRestore(e) == e.args[1] \in restores

IsSsh(e) == e.args[1] = str_ssh

IsStatus(e) == e.args[1] = str_status

\* two invocations issued while processing the same box of the same listing
SameBox(e, f) == e.di = f.di /\ e.bi = f.bi

\* the listed record of the box an invocation was issued for
BoxOf(e) == listings[e.di][e.bi]

\* the restore invocations issued for the box of log[i]
RestoresOf(i) == {j \in Entries : IsRestore(log[j]) /\ SameBox(log[j], log[i])}

\* the run has returned, with Ok or with Err
Returned == pc = "done" /\ result.kind \in {"Ok", "Err"}

-----------------------------------------------------------------------------
(* C1 *)

\* C1: for every box whose bring-up command succeeded, exactly one restore
\* command is issued for it; it is issued after the box's ssh command was
\* attempted and, at the latest, before the run ends.
C1_RestoreOnceAfterSsh ==
    \A i \in Entries :
        (IsBringUp(log[i]) /\ log[i].ok) =>
            /\ Cardinality(RestoresOf(i)) <= 1
            /\ \A j \in RestoresOf(i) :
                  /\ j > i
                  /\ \E k \in (i + 1)..(j - 1) : IsSsh(log[k]) /\ SameBox(log[k], log[i])
            /\ pc = "done" => Cardinality(RestoresOf(i)) = 1

\* C1, on the runs that return: the same, once the run returned Ok or Err
C1_RestoreOnceAfterSshWhenReturned ==
    Returned =>
        \A i \in Entries :
            (IsBringUp(log[i]) /\ log[i].ok) =>
                /\ Cardinality(RestoresOf(i)) = 1
                /\ \A j \in RestoresOf(i) :
                      /\ j > i
                      /\ \E k \in (i + 1)..(j - 1) :
                            IsSsh(log[k]) /\ SameBox(log[k], log[i])

-----------------------------------------------------------------------------
(* C2 *)

\* C2: the bring-up issued for a box is "up" when its listed state is PowerOff
\* or Aborted and "resume" when it is Saved; every restore follows a successful
\* bring-up of the same box, is "halt" iff that was "up" and "suspend" iff it
\* was "resume", and names the same box in the same directory.
C2_PairedSubcommands ==
    /\ \A i \in Entries :
          IsBringUp(log[i]) =>
              /\ BoxOf(log[i]).status \in {"PowerOff", "Aborted"} => log[i].args[1] = str_up
              /\ BoxOf(log[i]).status = "Saved" => log[i].args[1] = str_resume
              /\ BoxOf(log[i]).status # "Running"
              /\ log[i].args = <<log[i].args[1], BoxOf(log[i]).name>>
              /\ log[i].cwd = BoxOf(log[i]).path
    /\ \A j \in Entries :
          IsRestore(log[j]) =>
              \E i \in 1..(j - 1) :
                  /\ IsBringUp(log[i]) /\ log[i].ok /\ SameBox(log[i], log[j])
                  /\ log[j].args[1] = str_halt <=> log[i].args[1] = str_up
                  /\ log[j].args[1] = str_suspend <=> log[i].args[1] = str_resume
                  /\ Len(log[j].args) = 2 /\ log[j].args[2] = log[i].args[2]
                  /\ log[j].cwd = log[i].cwd

\* C2 witness: a halt and a suspend have been issued in one run
C2_Witness ==
    /\ \E j \in Entries : log[j].args[1] = str_halt
    /\ \E j \in Entries : log[j].args[1] = str_suspend

-----------------------------------------------------------------------------
(* C3 *)

\* every bring-up and restore command issued so far succeeded
NominalPower == \A i \in Entries : (IsBringUp(log[i]) \/ IsRestore(log[i])) => log[i].ok

\* the boxes the run brought up
BroughtUp == {<<log[i].cwd, log[i].args[2]>> : i \in {k \in Entries : IsBringUp(log[k])}}

\* the state a box rests in after the restore that matches its listed state
Resting(status) == IF status = "Aborted" THEN "PowerOff" ELSE status

\* C3 as stated: when the run returns and every bring-up and restore command
\* had its nominal effect, every box the run brought up has the power state
\* the status listing reported for it.
C3_ListedStateRestored ==
    (Returned /\ NominalPower) => \A b \in BroughtUp : power[b] = listed[b]

\* C3 amended: ... has the listed state if that was PowerOff or Saved, and is
\* PowerOff if the listed state was Aborted.
C3_RestingStateRestored ==
    (Returned /\ NominalPower) => \A b \in BroughtUp : power[b] = Resting(listed[b])

\* C3 witness: a run returned after bringing up a Saved and an Aborted box
C3_Witness ==
    /\ Returned /\ NominalPower
    /\ \E b \in BroughtUp : listed[b] = "Aborted"
    /\ \E b \in BroughtUp : listed[b] = "Saved"

-----------------------------------------------------------------------------
(* C4 *)

\* C4: for a box listed as Running no guard is created, the only command
\* issued for it is ssh, and neither unreachable!() is reached.
C4_RunningNeedsNoGuard ==
    /\ \A i \in Entries :
          (log[i].bi > 0 /\ BoxOf(log[i]).status = "Running") => IsSsh(log[i])
    /\ (pc \in {"run", "drop"} /\ vagrant_box.status = "Running") => poweron = None
    /\ poweron # None => poweron[1].status # "Running"
    /\ result.at \notin {"create_unreachable", "drop_unreachable"}

\* C4 witness: the ssh command of a Running box was issued and the run went on
C4_Witness ==
    \E i \in Entries :
        /\ log[i].bi > 0 /\ BoxOf(log[i]).status = "Running" /\ IsSsh(log[i])
        /\ i < Len(log)

-----------------------------------------------------------------------------
(* C5 *)

\* the boxes listed so far, as pairs of directory index and box index
ListedBoxes ==
    UNION {{<<di, bi>> : bi \in 1..Len(listings[di])} : di \in 1..Len(listings)}

\* an ssh invocation was issued for box bi of directory di
HasSsh(di, bi) == \E k \in Entries : IsSsh(log[k]) /\ log[k].di = di /\ log[k].bi = bi

\* a bring-up invocation was issued for box bi of directory di
HasBringUp(di, bi) == \E k \in Entries : IsBringUp(log[k]) /\ log[k].di = di /\ log[k].bi = bi

\* C5: with the policy explicitly disabled no command is issued for a box that
\* is not Running, the run goes on to the boxes after it, and an error of the
\* run comes from a failed command, never from the skip; with the policy unset
\* nothing is skipped: every box is powered on if need be and gets its ssh.
C5_SkipOnlyWhenDisabled ==
    /\ power_on = Some(FALSE) =>
          /\ \A i \in Entries : log[i].bi > 0 => BoxOf(log[i]).status = "Running"
          /\ (pc = "done" /\ result.kind = "Ok") =>
                \A p \in ListedBoxes :
                    listings[p[1]][p[2]].status = "Running" => HasSsh(p[1], p[2])
          /\ (pc = "done" /\ result.kind = "Err" /\ log # <<>>) => ~log[Len(log)].ok
    /\ power_on = None =>
          /\ (pc = "done" /\ result.kind = "Ok") =>
                \A p \in ListedBoxes :
                    /\ HasSsh(p[1], p[2])
                    /\ listings[p[1]][p[2]].status # "Running" => HasBringUp(p[1], p[2])
          /\ \A p \in ListedBoxes :
                (p[1] < dirIdx \/ (p[1] = dirIdx /\ p[2] < boxIdx)) =>
                    (HasSsh(p[1], p[2]) \/ HasBringUp(p[1], p[2]))

\* C5 witness: with the policy disabled a box that is not Running was skipped,
\* the box after it got its ssh, and the run returned Ok
C5_Witness ==
    /\ power_on = Some(FALSE)
    /\ pc = "done" /\ result.kind = "Ok"
    /\ \E p \in ListedBoxes :
          /\ listings[p[1]][p[2]].status # "Running"
          /\ \E k \in Entries : IsSsh(log[k]) /\ log[k].di = p[1] /\ log[k].bi > p[2]

\* C5 witness, second half: with the policy unset a box that is not Running
\* was powered on and the run returned Ok
C5_WitnessUnset ==
    /\ power_on = None
    /\ pc = "done" /\ result.kind = "Ok"
    /\ \E p \in ListedBoxes : HasBringUp(p[1], p[2])

-----------------------------------------------------------------------------
(* C6 *)

\* C6: after a failed bring-up command there is no guard, and no restore and
\* no ssh command is issued for that box.
C6_NoGuardWithoutBringUp ==
    \A i \in Entries :
        (IsBringUp(log[i]) /\ ~log[i].ok) =>
            /\ \A j \in Entries :
                  SameBox(log[j], log[i]) => ~IsRestore(log[j]) /\ ~IsSsh(log[j])
            /\ poweron = None
            /\ pc \notin {"run", "drop"}

\* C6 witness: a bring-up command failed
C6_Witness == \E i \in Entries : IsBringUp(log[i]) /\ ~log[i].ok

-----------------------------------------------------------------------------
(* C7 *)

\* the invocations other than restores
NonRestores == {i \in Entries : ~IsRestore(log[i])}

\* C7: a failing restore command never changes the result: an Err of the run
\* comes from the configuration or from the last command that is not a restore,
\* a run in which nothing but restore commands failed returns Ok, no restore
\* is issued twice for a box, and a failed ssh command is the Err the run
\* returns whatever the restore after it did.
C7_RestoreFailureSwallowed ==
    /\ \A i \in Entries : IsRestore(log[i]) => RestoresOf(i) = {i}
    /\ (pc = "done" /\ result.kind = "Err") =>
          \/ result.at \in {"directories", "vagrant"} /\ log = <<>>
          \/ /\ NonRestores # {}
             /\ LET last == CHOOSE i \in NonRestores : \A j \in NonRestores : j <= i
                IN  /\ ~log[last].ok
                    /\ result.at = CASE IsStatus(log[last]) -> "status"
                                     [] IsBringUp(log[last]) -> "create"
                                     [] IsSsh(log[last]) -> "ssh"
    /\ (Returned /\ directories # None /\ found /\ \A i \in NonRestores : log[i].ok) =>
          result.kind = "Ok"
    /\ pc = "done" =>
          \A k \in Entries : (IsSsh(log[k]) /\ ~log[k].ok) =>
              result = [kind |-> "Err", at |-> "ssh"]

\* C7 witness: a restore command failed, the run went on to another box and
\* returned Ok
C7_Witness ==
    /\ pc = "done" /\ result.kind = "Ok"
    /\ \E j \in Entries :
          /\ IsRestore(log[j]) /\ ~log[j].ok
          /\ \E k \in (j + 1)..Len(log) : IsSsh(log[k])

\* C7 witness, second half: the ssh command and the restore command of one box
\* both failed and the run returned the ssh error
C7_WitnessBothFail ==
    /\ pc = "done" /\ result = [kind |-> "Err", at |-> "ssh"]
    /\ \E j \in Entries : IsRestore(log[j]) /\ ~log[j].ok

-----------------------------------------------------------------------------
(* C8 *)

\* box bi of directory di was skipped under the disabled policy
Skipped(di, bi) ==
    listings[di][bi].status # "Running" /\ ~power_on_enabled(power_on)

\* get_boxes returned a listing for every configured directory, every bring-up
\* attempted succeeded, and the ssh command of every box not skipped succeeded
AllSucceeded ==
    /\ Len(listings) = Len(directories[1])
    /\ \A i \in Entries : IsBringUp(log[i]) => log[i].ok
    /\ \A p \in ListedBoxes :
          \/ Skipped(p[1], p[2])
          \/ \E k \in Entries :
                IsSsh(log[k]) /\ log[k].ok /\ log[k].di = p[1] /\ log[k].bi = p[2]

\* C8: once the loops are entered, the run returns Ok only if every listing,
\* every attempted bring-up and the ssh command of every box not skipped
\* succeeded, and if all of those succeeded the run returns Ok.
C8_OkIffAllSucceeded ==
    (pc = "done" /\ directories # None /\ found) =>
        (result.kind = "Ok" <=> AllSucceeded)

\* C8 witness: a run over two directories returned Ok after an ssh command
C8_Witness ==
    /\ pc = "done" /\ result.kind = "Ok"
    /\ Len(listings) = 2
    /\ \E k \in Entries : IsSsh(log[k]) /\ log[k].di = 2

-----------------------------------------------------------------------------
(* C9 *)

\* C9: a failed status command is the last command of the run: the run has
\* returned its error, no guard is alive, nothing was issued for that or a
\* later directory, and every box brought up before has had its restore.
C9_ListingFailureAborts ==
    \A i \in Entries :
        (IsStatus(log[i]) /\ ~log[i].ok) =>
            /\ i = Len(log)
            /\ pc = "done" /\ result = [kind |-> "Err", at |-> "status"]
            /\ poweron = None
            /\ \A j \in Entries : j # i => log[j].di < log[i].di
            /\ \A j \in Entries :
                  (IsBringUp(log[j]) /\ log[j].ok) => RestoresOf(j) # {}

\* C9 witness: the status command of the second directory failed after a box
\* of the first one had been brought up
C9_Witness ==
    \E i \in Entries :
        /\ IsStatus(log[i]) /\ ~log[i].ok /\ log[i].di = 2
        /\ \E j \in Entries : IsBringUp(log[j]) /\ log[j].ok

-----------------------------------------------------------------------------
(* C10 *)

\* a box line with a name token and a state token the tool prints
WellFormed(l) ==
    Len(l.tokens) >= 2 /\ \E st \in BoxStatus : l.tokens[2] = keyword(st)

\* the text under parse is two header lines, well-formed box lines, a
\* terminator line and trailing lines
WellFormedText ==
    /\ stdout.terminator # None
    /\ \A i \in 1..Len(stdout.table) : WellFormed(stdout.table[i])

\* C10: for a text of two header lines, N well-formed box lines, a terminator
\* (an empty line or a line starting with a carriage return) and any trailing
\* lines, get_boxes returns N records in listing order, record i with the first
\* token of box line i as name, the directory as path and the state its second
\* token names, whatever the trailing lines are.
C10_ParsesTheTable ==
    (pc = "parsed" /\ WellFormedText) =>
        /\ parsed.kind = "Ok"
        /\ Len(parsed.boxes) = Len(stdout.table)
        /\ \A i \in 1..Len(stdout.table) :
              /\ parsed.boxes[i].name = stdout.table[i].tokens[1]
              /\ parsed.boxes[i].path = directory
              /\ keyword(parsed.boxes[i].status) = stdout.table[i].tokens[2]

\* C10 witness: a text with a full table, a carriage-return terminator and
\* trailing lines, one of them reading like a box line, has been parsed
C10_Witness ==
    /\ pc = "parsed" /\ WellFormedText
    /\ Len(stdout.table) = MaxBoxes
    /\ stdout.terminator[1] # <<>>
    /\ \E i \in 1..Len(stdout.trailing) : stdout.trailing[i] # <<>>

-----------------------------------------------------------------------------
(* C11 *)

\* the text under parse has a terminator and every box line has a name token
\* and a state token
TwoTokenText ==
    /\ stdout.terminator # None
    /\ \A i \in 1..Len(stdout.table) : Len(stdout.table[i].tokens) >= 2

\* the state token of box line i
StateToken(i) == stdout.table[i].tokens[2]

\* a table line with a keyword in another case than the tool prints
CaseVariant(i) ==
    /\ \E st \in BoxStatus : lowercase(StateToken(i)) = keyword(st)
    /\ \A st \in BoxStatus : StateToken(i) # keyword(st)

\* C11 as stated: parsing succeeds exactly when every state token equals one of
\* poweroff, running, saved, aborted compared case-insensitively, and then
\* yields the corresponding states.
C11_CaseInsensitiveKeywords ==
    (pc = "parsed" /\ TwoTokenText) =>
        /\ parsed.kind = "Ok" <=>
              \A i \in 1..Len(stdout.table) :
                  \E st \in BoxStatus : lowercase(StateToken(i)) = keyword(st)
        /\ parsed.kind = "Ok" =>
              \A i \in 1..Len(stdout.table) :
                  keyword(parsed.boxes[i].status) = lowercase(StateToken(i))

\* C11 amended: parsing succeeds exactly when every state token is one of the
\* lowercase words poweroff, running, saved, aborted, letter for letter, and
\* then yields the corresponding states; any other token, a keyword in another
\* case included, does not parse.
C11_ExactLowercaseKeywords ==
    (pc = "parsed" /\ TwoTokenText) =>
        /\ parsed.kind = "Ok" <=>
              \A i \in 1..Len(stdout.table) :
                  \E st \in BoxStatus : StateToken(i) = keyword(st)
        /\ parsed.kind = "Ok" =>
              \A i \in 1..Len(stdout.table) :
                  keyword(parsed.boxes[i].status) = StateToken(i)
        /\ (\E i \in 1..Len(stdout.table) : CaseVariant(i)) => parsed.kind # "Ok"

\* C11 witness: a text whose only box line carries a keyword in another case
\* has been parsed
C11_Witness ==
    /\ pc = "parsed" /\ TwoTokenText
    /\ Len(stdout.table) = 1 /\ CaseVariant(1)

-----------------------------------------------------------------------------
(* C12 *)

\* the status command of log entry i succeeded and get_boxes returned no listing
\* for its text
NoListingFor(i) ==
    /\ IsStatus(log[i]) /\ log[i].ok
    /\ Len(listings) < log[i].di

\* C12: a status text with a malformed box line ends the run with an error
\* result, not a panic, and no box command is issued for that directory.
C12_MalformedLineReturnsErr ==
    \A i \in Entries :
        NoListingFor(i) =>
            /\ i = Len(log)
            /\ pc = "done"
            /\ result.kind = "Err"

-----------------------------------------------------------------------------
(* C13 *)

\* the text of path d after its last separator
LastPathComponent(d) ==
    LET k == CHOOSE k \in 0..Len(d) :
                 /\ k = 0 \/ d[k] = "/"
                 /\ \A j \in (k + 1)..Len(d) : d[j] # "/"
    IN  SubSeq(d, k + 1, Len(d))

\* the prefix C13 names for a box
NamedPrefix(b) == IF b.name = str_default THEN LastPathComponent(b.path) ELSE b.name

\* C13: the remote command of every ssh invocation reads
\* "env TOPGRADE_PREFIX=<prefix> topgrade", followed by " -y" exactly when the
\* configuration asks for non-interactive mode, where <prefix> is the last path
\* component of the box's directory if the box is named "default" and the box
\* name otherwise, whatever the directory.
C13_PrefixAndCommand ==
    \A i \in Entries :
        IsSsh(log[i]) =>
            /\ Len(log[i].args) = 3
            /\ log[i].args[3] =
                  IF yes
                  THEN str_env_prefix \o NamedPrefix(BoxOf(log[i])) \o str_topgrade \o str_dash_y
                  ELSE str_env_prefix \o NamedPrefix(BoxOf(log[i])) \o str_topgrade

\* C13 witness: under non-interactive mode the remote command has been issued
\* for a box named "default" and for a box of another name in the root directory
C13_Witness ==
    /\ yes
    /\ \E i \in Entries : IsSsh(log[i]) /\ BoxOf(log[i]).name = str_default
    /\ \E i \in Entries :
          /\ IsSsh(log[i])
          /\ BoxOf(log[i]).name # str_default
          /\ BoxOf(log[i]).path = dir_root

\* C13 witness: the remote command has been issued in interactive mode
C13_WitnessInteractive ==
    /\ ~yes
    /\ \E i \in Entries : IsSsh(log[i]) /\ BoxOf(log[i]).name = str_default

-----------------------------------------------------------------------------
(* C14 *)

\* C14: when no directory list is configured or the vagrant binary is not
\* found, the run issues no command at all (no status, bring-up, ssh or
\* restore), does no listing, and ends with an error.
C14_PreconditionsBeforeAnyWork ==
    (directories = None \/ ~found) =>
        /\ log = <<>>
        /\ listings = <<>>
        /\ pc \in {"start", "done"}
        /\ pc = "done" => result.kind = "Err"
        /\ pc = "done" =>
              result.at = IF directories = None THEN "directories" ELSE "vagrant"

\* C14 witness: a run with directories configured and no binary has ended
C14_Witness ==
    /\ pc = "done"
    /\ ~found
    /\ directories # None /\ Len(directories[1]) > 0

\* C14 witness: a run with the binary and without a directory list has ended
C14_WitnessNoDirectories ==
    /\ pc = "done"
    /\ found
    /\ directories = None

-----------------------------------------------------------------------------
(* C15 *)

\* the bring-up command of log entry i failed
FailedBringUp(i) == IsBringUp(log[i]) /\ ~log[i].ok

\* boxes of the same listing or directories of the list remain after the box
\* of log entry i
WorkRemainsAfter(i) ==
    \/ log[i].bi < Len(listings[log[i].di])
    \/ log[i].di < Len(directories[1])

\* C15 as stated: a failed bring-up aborts its box only; while boxes or
\* directories remain, the run does not return an error with the failed
\* bring-up as its last command.
C15_FailedBringUpAbortsBoxOnly ==
    \A i \in Entries :
        (FailedBringUp(i) /\ WorkRemainsAfter(i)) =>
            ~(pc = "done" /\ result.kind = "Err" /\ i = Len(log))

\* C15 amended: a failed bring-up aborts the whole run; the run returns that
\* error at once, no guard is held, and no command is issued after the failed
\* bring-up, for that box, a later box or a later directory.
C15_FailedBringUpAbortsRun ==
    \A i \in Entries :
        FailedBringUp(i) =>
            /\ i = Len(log)
            /\ pc = "done"
            /\ result = [kind |-> "Err", at |-> "create"]
            /\ poweron = None

\* C15 witness: a bring-up has failed for a box that is followed by another box
\* in its listing and by another directory in the list
C15_Witness ==
    \E i \in Entries :
        /\ FailedBringUp(i)
        /\ log[i].bi < Len(listings[log[i].di])
        /\ log[i].di < Len(directories[1])

-----------------------------------------------------------------------------
(* C16 *)

\* the bring-up invocations issued in directory d for the box named n
BringUpsOf(d, n) ==
    {i \in Entries : IsBringUp(log[i]) /\ log[i].cwd = d /\ log[i].args[2] = n}

\* the restore invocations issued in directory d for the box named n
RestoresOfBox(d, n) ==
    {i \in Entries : IsRestore(log[i]) /\ log[i].cwd = d /\ log[i].args[2] = n}

\* the boxes, by directory and name, that commands were issued for
CommandedBoxes ==
    {<<log[i].cwd, log[i].args[2]>> : i \in {j \in Entries : IsBringUp(log[j]) \/ IsRestore(log[j])}}

\* the number of entries of the configured list that are directory d
Occurrences(d) ==
    Cardinality({di \in 1..Len(directories[1]) : directories[1][di] = d})

\* C16 as stated: whatever the directory list, one that repeats a directory
\* included, at most one bring-up and at most one restore command is issued for
\* any box, identified by directory and name.
C16_OncePerBoxPerRun ==
    \A b \in CommandedBoxes :
        /\ Cardinality(BringUpsOf(b[1], b[2])) <= 1
        /\ Cardinality(RestoresOfBox(b[1], b[2])) <= 1

\* C16 amended: for any box, identified by directory and name, at most one
\* bring-up and at most one restore command is issued for each entry of the
\* directory list that is its directory: at most one of each while its
\* directory's entry is processed, and no more in the run than the number of
\* times the directory appears in the list.
C16_OncePerBoxPerEntry ==
    \A b \in CommandedBoxes :
        /\ Cardinality(BringUpsOf(b[1], b[2])) <= Occurrences(b[1])
        /\ Cardinality(RestoresOfBox(b[1], b[2])) <= Occurrences(b[1])
        /\ \A i, j \in BringUpsOf(b[1], b[2]) : log[i].di = log[j].di => i = j
        /\ \A i, j \in RestoresOfBox(b[1], b[2]) : log[i].di = log[j].di => i = j

\* C16 witness: a box of a directory that is listed twice has been brought up
\* and restored once for each of the two entries
C16_Witness ==
    \E b \in CommandedBoxes :
        /\ Occurrences(b[1]) = 2
        /\ Cardinality(BringUpsOf(b[1], b[2])) = 2
        /\ Cardinality(RestoresOfBox(b[1], b[2])) = 2

-----------------------------------------------------------------------------
(* C17 *)

\* the successful bring-ups whose box has no restore invocation yet
Unrestored == {i \in Entries : IsBringUp(log[i]) /\ log[i].ok /\ RestoresOf(i) = {}}

\* C17: the guard of a box is released before the run moves on: at most one box
\* is brought up and not yet restored, it is the box being processed and its
\* guard is held; every command issued since its bring-up is for that same box
\* (no bring-up or ssh of a later box, no status of a later directory); a
\* restore follows its box's bring-up with only that box's commands in between;
\* and no box is unrestored when the run turns to the next box or directory.
C17_GuardReleasedBeforeMovingOn ==
    /\ Cardinality(Unrestored) <= 1
    /\ \A i \in Unrestored :
          /\ poweron # None
          /\ pc \in {"run", "drop"}
          /\ log[i].di = dirIdx /\ log[i].bi = boxIdx
          /\ \A j \in (i + 1)..Len(log) : SameBox(log[j], log[i])
    /\ \A i \in Entries :
          (IsBringUp(log[i]) /\ log[i].ok) =>
              \A r \in RestoresOf(i) :
                  /\ r > i
                  /\ \A j \in (i + 1)..r : SameBox(log[j], log[i])
    /\ pc \in {"box", "directory"} => Unrestored = {}

\* C17 witness: a box was brought up and restored, and after that the next box
\* of the listing was brought up, and a later directory was listed
C17_Witness ==
    \E i, r, k, s \in Entries :
        /\ IsBringUp(log[i]) /\ log[i].ok
        /\ r \in RestoresOf(i)
        /\ k > r /\ IsBringUp(log[k])
        /\ log[k].di = log[i].di /\ log[k].bi = log[i].bi + 1
        /\ s > k /\ IsStatus(log[s])

-----------------------------------------------------------------------------
(* C18 *)

\* the ssh command of log entry k failed
FailedSsh(k) == IsSsh(log[k]) /\ ~log[k].ok

\* C18: when the ssh command of a box fails, the run returns an error; the only
\* command issued after the failing ssh is the restore of that same box, issued
\* if a guard was acquired for it and before the error is returned; no
\* bring-up, ssh or status command is issued for any later box or directory.
C18_SshFailureAbortsAfterRestore ==
    \A k \in Entries :
        FailedSsh(k) =>
            /\ Len(log) <= k + 1
            /\ \A j \in (k + 1)..Len(log) : IsRestore(log[j]) /\ SameBox(log[j], log[k])
            /\ pc \in {"drop", "done"}
            /\ pc = "drop" => (poweron # None /\ Len(log) = k)
            /\ pc = "done" =>
                  /\ result = [kind |-> "Err", at |-> "ssh"]
                  /\ HasBringUp(log[k].di, log[k].bi) <=> Len(log) = k + 1

\* C18 witness: the ssh command of a brought-up box failed, its restore was
\* issued and the run has ended, with a later box and a later directory left
C18_Witness ==
    \E k \in Entries :
        /\ FailedSsh(k)
        /\ pc = "done"
        /\ Len(log) = k + 1
        /\ log[k].bi < Len(listings[log[k].di])
        /\ log[k].di < Len(directories[1])

\* C18 witness: the ssh command of a box that was listed as running failed and
\* the run has ended, with a later directory left
C18_WitnessNoGuard ==
    \E k \in Entries :
        /\ FailedSsh(k)
        /\ pc = "done"
        /\ Len(log) = k
        /\ log[k].di < Len(directories[1])

-----------------------------------------------------------------------------
(* C19 *)

\* the invocation names box b among its arguments, as bring-up and restore do
Addresses(e, b) == \E a \in 1..Len(e.args) : e.args[a] = b.name

\* C19: in a directory whose listing holds several boxes, the ssh invocation of
\* each box is addressed to that box: it identifies the box by name among its
\* arguments, as the bring-up and restore invocations do.
C19_SshAddressedToItsBox ==
    \A i \in Entries :
        (IsSsh(log[i]) /\ Len(listings[log[i].di]) > 1) =>
            Addresses(log[i], BoxOf(log[i]))

\* the bring-up and restore invocations do name their box
C19_GuardCommandsAddressed ==
    \A i \in Entries :
        (IsBringUp(log[i]) \/ IsRestore(log[i])) => Addresses(log[i], BoxOf(log[i]))

-----------------------------------------------------------------------------
(* C20 *)

\* the status invocations issued for entry di of the directory list
StatusesOf(di) == {s \in Entries : IsStatus(log[s]) /\ log[s].di = di}

\* the run has reached the listing of entry di of the directory list
Listed(di) == di < dirIdx \/ (di = dirIdx /\ pc # "directory")

\* a successful bring-up of the box of log[k] was issued before log[k] and after
\* log[s], and no restore of that box was issued before log[k]
BroughtUpBefore(k, s) ==
    \E i \in (s + 1)..(k - 1) :
        /\ IsBringUp(log[i]) /\ log[i].ok /\ SameBox(log[i], log[k])
        /\ \A r \in RestoresOf(i) : r > k

\* C20: every ssh invocation comes after the successful status command of its
\* directory entry and, for its box, either the listing reported Running or a
\* successful bring-up was issued since that status command and is not yet
\* restored; a status command is issued once for each configured directory entry
\* the run reaches, never twice, in list order, in that directory, and before
\* every box command of that entry; a run that returns Ok has issued exactly
\* one for each configured entry.
C20_SshOnlyWhenUp ==
    /\ \A k \in Entries :
          IsSsh(log[k]) =>
              \E s \in StatusesOf(log[k].di) :
                  /\ s < k /\ log[s].ok
                  /\ \/ BoxOf(log[k]).status = "Running"
                     \/ BroughtUpBefore(k, s)
    /\ directories # None =>
          \A di \in 1..Len(directories[1]) :
              /\ Cardinality(StatusesOf(di)) = IF Listed(di) THEN 1 ELSE 0
              /\ \A s \in StatusesOf(di) : log[s].cwd = directories[1][di]
    /\ \A j \in Entries :
          ~IsStatus(log[j]) =>
              \E s \in StatusesOf(log[j].di) :
                  s < j /\ \A m \in s..j : log[m].di = log[j].di
    /\ \A s, t \in Entries :
          (IsStatus(log[s]) /\ IsStatus(log[t]) /\ s < t) => log[s].di < log[t].di
    /\ (pc = "done" /\ result.kind = "Ok") =>
          \A di \in 1..Len(directories[1]) : Cardinality(StatusesOf(di)) = 1

\* C20 witness: in a run over two directory entries that returned Ok, the ssh
\* command was issued for a box listed as Running and for a box that was
\* brought up
C20_Witness ==
    /\ pc = "done" /\ result.kind = "Ok"
    /\ Len(directories[1]) = 2
    /\ \E k \in Entries : IsSsh(log[k]) /\ BoxOf(log[k]).status = "Running"
    /\ \E k \in Entries : IsSsh(log[k]) /\ HasBringUp(log[k].di, log[k].bi)

====
